---------------------------- MODULE Spec2Model ----------------------------
(***************************************************************************)
(* Model of apps/common/utils/crypto.py: the three codecs (AESCrypto in    *)
(* ECB mode, AESCryptoGCM, GMSM2Crypto), their key derivations and text    *)
(* framings, and the Crypto registry with its ordered fallback decrypt.    *)
(*                                                                         *)
(* Text is a sequence of Unicode code points, bytes a sequence of 0..255.  *)
(* The result of a Python call is a record [kind, val, exc]:               *)
(*   kind = "value": the call returned the text/bytes val                  *)
(*   kind = "None" : the call returned None                                *)
(*   kind = "raise": the call raised an exception of class exc, cause why  *)
(* The AES and SM2 primitives are outside the repository. AES, in ECB and   *)
(* in GCM, is modelled as the cipher itself. Of the SM2 primitive of gmssl *)
(* the model fixes only that decrypt opens what encrypt sealed; what it    *)
(* does with any other data is left open (see SM2Outcomes).                *)
(***************************************************************************)
EXTENDS Integers, Sequences, FiniteSets, TLC

\* ------------------------------------------------------------------------
\* Results of Python calls
\* ------------------------------------------------------------------------
Value(v) == [kind |-> "value", val |-> v, exc |-> "-", why |-> "-"]
NoneResult == [kind |-> "None", val |-> <<>>, exc |-> "-", why |-> "-"]
\* e is the Python exception class; w names what went wrong: "decode" (the text
\* is no base64), "utf8" (the bytes are no UTF-8, or the text has no UTF-8
\* encoding), "auth" (a tag or digest does not verify), "primitive" (the cipher
\* rejects key or data), "unbound" (a local variable was never assigned)
Raise(e, w) == [kind |-> "raise", val |-> <<>>, exc |-> e, why |-> w]
IsValue(r) == r.kind = "value"
IsRaise(r) == r.kind = "raise"

\* ------------------------------------------------------------------------
\* Sequence helpers (Python slicing, str.replace, bytes.rstrip)
\* ------------------------------------------------------------------------
Min(a, b) == IF a < b THEN a ELSE b

\* s[a:b] with 0 <= a, 0-based, end-exclusive, clamped like a Python slice
Slice(s, a, b) == SubSeq(s, a + 1, Min(b, Len(s)))

\* s[a:]
SliceFrom(s, a) == Slice(s, a, Len(s))

\* the sequence with the elements of the function f on 1..n (f is evaluated
\* once per element)
AsSeq(f) == <<>> \o f

\* n copies of x
Repeat(x, n) == AsSeq([i \in 1..n |-> x])

\* the concatenation of the sequences ss[lo], ..., ss[hi] (split in halves)
RECURSIVE FlattenRange(_, _, _)
FlattenRange(ss, lo, hi) ==
  IF lo > hi THEN <<>>
  ELSE IF lo = hi THEN ss[lo]
  ELSE LET mid == (lo + hi) \div 2
       IN FlattenRange(ss, lo, mid) \o FlattenRange(ss, mid + 1, hi)

Flatten(ss) == FlattenRange(ss, 1, Len(ss))

\* str.replace(ch, '') for a one-character pattern
RemoveChar(s, ch) == SelectSeq(s, LAMBDA c : c # ch)

\* bytes.rstrip(b'\0'): drop every trailing zero byte
rstrip0(bs) ==
  LET keep == {i \in 1..Len(bs) : bs[i] # 0}
      last == IF keep = {} THEN 0 ELSE CHOOSE i \in keep : \A j \in keep : j <= i
  IN SubSeq(bs, 1, last)

\* ------------------------------------------------------------------------
\* UTF-8: bytes(text, encoding='utf8') and bytes.decode('utf8')
\* ------------------------------------------------------------------------
\* the bytes of a code point that is no surrogate
CodePointBytes(c) ==
  IF c < 128 THEN <<c>>
  ELSE IF c < 2048 THEN <<192 + (c \div 64), 128 + (c % 64)>>
  ELSE IF c < 65536 THEN
    <<224 + (c \div 4096), 128 + ((c \div 64) % 64), 128 + (c % 64)>>
  ELSE <<240 + (c \div 262144), 128 + ((c \div 4096) % 64),
         128 + ((c \div 64) % 64), 128 + (c % 64)>>

\* bytes(chr(c), encoding='utf8'): a lone surrogate (U+D800..U+DFFF), which a
\* str can hold, has no UTF-8 encoding
EncodeCodePoint(c) ==
  IF c >= 55296 /\ c <= 57343 THEN Raise("UnicodeEncodeError", "utf8")
  ELSE Value(CodePointBytes(c))

\* bytes(text, encoding='utf8'): the bytes, or UnicodeEncodeError
utf8_encode(text) ==
  IF \E i \in 1..Len(text) : IsRaise(EncodeCodePoint(text[i]))
  THEN Raise("UnicodeEncodeError", "utf8")
  ELSE Value(Flatten(AsSeq([i \in 1..Len(text) |-> CodePointBytes(text[i])])))

IsCont(b) == b >= 128 /\ b <= 191

\* strict UTF-8 decoding: one step decodes the code point at st.i; st is
\* [i, acc, err], err set when the bytes at st.i are no valid sequence
Utf8Step(bs, st) ==
  IF st.err \/ st.i > Len(bs) THEN st
  ELSE LET i == st.i
           b == bs[i]
           n == Len(bs)
       IN
    IF b < 128 THEN [i |-> i + 1, acc |-> Append(st.acc, b), err |-> FALSE]
    ELSE IF b >= 194 /\ b <= 223 THEN
      IF i + 1 <= n /\ IsCont(bs[i + 1])
      THEN [i |-> i + 2, err |-> FALSE,
            acc |-> Append(st.acc, (b - 192) * 64 + (bs[i + 1] - 128))]
      ELSE [st EXCEPT !.err = TRUE]
    ELSE IF b >= 224 /\ b <= 239 THEN
      IF /\ i + 2 <= n
         /\ IsCont(bs[i + 1]) /\ IsCont(bs[i + 2])
         /\ (b = 224 => bs[i + 1] >= 160)
         /\ (b = 237 => bs[i + 1] <= 159)
      THEN [i |-> i + 3, err |-> FALSE,
            acc |-> Append(st.acc, (b - 224) * 4096 + (bs[i + 1] - 128) * 64
                                   + (bs[i + 2] - 128))]
      ELSE [st EXCEPT !.err = TRUE]
    ELSE IF b >= 240 /\ b <= 244 THEN
      IF /\ i + 3 <= n
         /\ IsCont(bs[i + 1]) /\ IsCont(bs[i + 2]) /\ IsCont(bs[i + 3])
         /\ (b = 240 => bs[i + 1] >= 144)
         /\ (b = 244 => bs[i + 1] <= 143)
      THEN [i |-> i + 4, err |-> FALSE,
            acc |-> Append(st.acc, (b - 240) * 262144 + (bs[i + 1] - 128) * 4096
                                   + (bs[i + 2] - 128) * 64 + (bs[i + 3] - 128))]
      ELSE [st EXCEPT !.err = TRUE]
    ELSE [st EXCEPT !.err = TRUE]

RECURSIVE Utf8Run(_, _)
Utf8Run(bs, st) ==
  IF st.err \/ st.i > Len(bs) THEN st
  ELSE Utf8Run(bs, Utf8Step(bs, Utf8Step(bs, Utf8Step(bs, Utf8Step(bs, st)))))

\* the outcome of a finished decoding run
Utf8Result(st) == IF st.err THEN Raise("UnicodeDecodeError", "utf8") ELSE Value(st.acc)

utf8_decode(bs) == Utf8Result(Utf8Run(bs, [i |-> 1, acc |-> <<>>, err |-> FALSE]))

\* ------------------------------------------------------------------------
\* base64 (the standard library's binascii, non-strict mode)
\* ------------------------------------------------------------------------
PadChar == 61
NewLine == 10

\* the character of a 6-bit value in the standard alphabet
B64Char(v) ==
  IF v < 26 THEN 65 + v
  ELSE IF v < 52 THEN 97 + (v - 26)
  ELSE IF v < 62 THEN 48 + (v - 52)
  ELSE IF v = 62 THEN 43 ELSE 47

\* the 6-bit value of a character, 64 when it is not in the standard alphabet
B64Val(c) ==
  IF c >= 65 /\ c <= 90 THEN c - 65
  ELSE IF c >= 97 /\ c <= 122 THEN c - 97 + 26
  ELSE IF c >= 48 /\ c <= 57 THEN c - 48 + 52
  ELSE IF c = 43 THEN 62
  ELSE IF c = 47 THEN 63
  ELSE 64

\* binascii.b2a_base64(bs, newline=False): four characters for every three
\* bytes, the last group padded with '='
B64Group(bs, g) ==
  LET i == 3 * g - 2
      n == Len(bs) - i + 1
  IN IF n = 1 THEN
       <<B64Char(bs[i] \div 4), B64Char((bs[i] % 4) * 16), PadChar, PadChar>>
     ELSE IF n = 2 THEN
       <<B64Char(bs[i] \div 4), B64Char((bs[i] % 4) * 16 + bs[i + 1] \div 16),
         B64Char((bs[i + 1] % 16) * 4), PadChar>>
     ELSE
       <<B64Char(bs[i] \div 4), B64Char((bs[i] % 4) * 16 + bs[i + 1] \div 16),
         B64Char((bs[i + 1] % 16) * 4 + bs[i + 2] \div 64), B64Char(bs[i + 2] % 64)>>

b2a_base64(bs) ==
  Flatten(AsSeq([g \in 1..((Len(bs) + 2) \div 3) |-> B64Group(bs, g)]))

\* base64.b64encode(bs).decode('utf-8')
b64encode(bs) == b2a_base64(bs)

\* base64.encodebytes(bs): lines of MAXBINSIZE bytes, each ended by a newline
MAXBINSIZE == 57
RECURSIVE encodebytes(_)
encodebytes(bs) ==
  IF bs = <<>> THEN <<>>
  ELSE b2a_base64(Slice(bs, 0, MAXBINSIZE)) \o <<NewLine>>
       \o encodebytes(SliceFrom(bs, MAXBINSIZE))

\* base64.urlsafe_b64encode: '+' -> '-', '/' -> '_'
UrlSafeChar(c) == IF c = 43 THEN 45 ELSE IF c = 47 THEN 95 ELSE c
StdChar(c) == IF c = 45 THEN 43 ELSE IF c = 95 THEN 47 ELSE c
\* bytes.translate with each of the two tables above
ToUrlSafe(s) == AsSeq([i \in 1..Len(s) |-> UrlSafeChar(s[i])])
ToStd(s) == AsSeq([i \in 1..Len(s) |-> StdChar(s[i])])

urlsafe_b64encode(bs) == ToUrlSafe(b2a_base64(bs))

\* binascii.a2b_base64(s) without strict_mode: characters outside the alphabet
\* are skipped, a completed pad sequence ends the input, leftover characters
\* of an unfinished quad are an error (binascii.Error, a ValueError).
\* One step reads the character at st.i; st is [i, quad_pos, leftchar, pads,
\* out, done].
A2BStep(s, st) ==
  IF st.done \/ st.i > Len(s) THEN st
  ELSE IF s[st.i] = PadChar THEN
    IF st.quad_pos >= 2 /\ st.quad_pos + st.pads + 1 >= 4
    THEN [st EXCEPT !.done = TRUE]
    ELSE [st EXCEPT !.i = @ + 1,
                    !.pads = IF st.quad_pos >= 2 THEN @ + 1 ELSE @]
  ELSE LET v == B64Val(s[st.i]) IN
    IF v >= 64 THEN [st EXCEPT !.i = @ + 1]
    ELSE IF st.quad_pos = 0 THEN
      [st EXCEPT !.i = @ + 1, !.quad_pos = 1, !.leftchar = v, !.pads = 0]
    ELSE IF st.quad_pos = 1 THEN
      [st EXCEPT !.i = @ + 1, !.quad_pos = 2, !.leftchar = v % 16, !.pads = 0,
                 !.out = Append(@, st.leftchar * 4 + v \div 16)]
    ELSE IF st.quad_pos = 2 THEN
      [st EXCEPT !.i = @ + 1, !.quad_pos = 3, !.leftchar = v % 4, !.pads = 0,
                 !.out = Append(@, st.leftchar * 16 + v \div 4)]
    ELSE
      [st EXCEPT !.i = @ + 1, !.quad_pos = 0, !.leftchar = 0, !.pads = 0,
                 !.out = Append(@, st.leftchar * 64 + v)]

RECURSIVE A2BRun(_, _)
A2BRun(s, st) ==
  IF st.done \/ st.i > Len(s) THEN st
  ELSE A2BRun(s, A2BStep(s, A2BStep(s, A2BStep(s, A2BStep(s, st)))))

\* the outcome of a finished run: an unfinished quad is an error
A2BResult(st) ==
  IF ~st.done /\ st.quad_pos # 0 THEN Raise("binascii.Error", "decode") ELSE Value(st.out)

a2b_base64(s) ==
  A2BResult(A2BRun(s, [i |-> 1, quad_pos |-> 0, leftchar |-> 0, pads |-> 0,
                       out |-> <<>>, done |-> FALSE]))

\* a2b_base64 of the outcome r of an encoding: its exception, or its bytes decoded
a2b_encoded(r) == IF IsRaise(r) THEN r ELSE a2b_base64(r.val)

\* base64.decodebytes(bytes(text, 'utf8')): the text's UTF-8 bytes are decoded
decodebytes(text) == a2b_encoded(utf8_encode(text))

\* base64.b64decode(text) of a str: the str must be ASCII (else ValueError)
b64decode(text) ==
  IF \E i \in 1..Len(text) : text[i] >= 128 THEN Raise("ValueError", "decode")
  ELSE a2b_base64(text)

\* base64.urlsafe_b64decode(bytes(text, 'utf8')): translate '-', '_' and decode
a2b_urlsafe(r) == IF IsRaise(r) THEN r ELSE a2b_base64(ToStd(r.val))

urlsafe_b64decode(text) == a2b_urlsafe(utf8_encode(text))

\* ------------------------------------------------------------------------
\* KeyDeriver and AESCrypto (ECB)
\* ------------------------------------------------------------------------
BlockSize == 16
MaxKeyChars == 32

\* AESCrypto.to_16: UTF-8 bytes, then b'\0' appended until a multiple of 16
\* (the text's UnicodeEncodeError when it has no UTF-8 bytes)
RECURSIVE PadZeros(_)
PadZeros(bs) == IF Len(bs) % BlockSize # 0 THEN PadZeros(Append(bs, 0)) ELSE bs

ZeroPadded(r) == IF IsRaise(r) THEN r ELSE Value(PadZeros(r.val))

to_16(text) == ZeroPadded(utf8_encode(text))

\* AESCrypto.__init__: the secret is cut to 32 characters, then to_16
AESCrypto_init(key) ==
  to_16(IF Len(key) > MaxKeyChars THEN Slice(key, 0, MaxKeyChars) ELSE key)

\* AES.new(key, AES.MODE_ECB) accepts keys of 16, 24 or 32 bytes (ValueError
\* otherwise); AESCrypto.aes() runs at the start of every encrypt and decrypt
AESKeyOk(key) == Len(key) \in {16, 24, 32}

\* The AES block cipher (FIPS 197), which AES.new(key, AES.MODE_ECB) and
\* AES.new(key, AES.MODE_GCM) apply. Bytes are 0..255.
\* the exclusive or of two 4-bit values a and b, bit by bit, at place 16a + b + 1
XorTable ==
  AsSeq([i \in 1..256 |->
    ((((i - 1) \div 16) + ((i - 1) % 16)) % 2)
    + 2 * (((((i - 1) \div 16) \div 2) + (((i - 1) % 16) \div 2)) % 2)
    + 4 * (((((i - 1) \div 16) \div 4) + (((i - 1) % 16) \div 4)) % 2)
    + 8 * (((((i - 1) \div 16) \div 8) + (((i - 1) % 16) \div 8)) % 2)])

\* a ^ b on bytes
Xor(a, b) ==
  16 * XorTable[16 * (a \div 16) + (b \div 16) + 1] + XorTable[16 * (a % 16) + (b % 16) + 1]

XorBytes(x, y) == AsSeq([i \in 1..Len(x) |-> Xor(x[i], y[i])])

\* the AES S-box and its inverse
SBox ==
  << 99, 124, 119, 123, 242, 107, 111, 197,  48,   1, 103,  43, 254, 215, 171, 118,
    202, 130, 201, 125, 250,  89,  71, 240, 173, 212, 162, 175, 156, 164, 114, 192,
    183, 253, 147,  38,  54,  63, 247, 204,  52, 165, 229, 241, 113, 216,  49,  21,
      4, 199,  35, 195,  24, 150,   5, 154,   7,  18, 128, 226, 235,  39, 178, 117,
      9, 131,  44,  26,  27, 110,  90, 160,  82,  59, 214, 179,  41, 227,  47, 132,
     83, 209,   0, 237,  32, 252, 177,  91, 106, 203, 190,  57,  74,  76,  88, 207,
    208, 239, 170, 251,  67,  77,  51, 133,  69, 249,   2, 127,  80,  60, 159, 168,
     81, 163,  64, 143, 146, 157,  56, 245, 188, 182, 218,  33,  16, 255, 243, 210,
    205,  12,  19, 236,  95, 151,  68,  23, 196, 167, 126,  61, 100,  93,  25, 115,
     96, 129,  79, 220,  34,  42, 144, 136,  70, 238, 184,  20, 222,  94,  11, 219,
    224,  50,  58,  10,  73,   6,  36,  92, 194, 211, 172,  98, 145, 149, 228, 121,
    231, 200,  55, 109, 141, 213,  78, 169, 108,  86, 244, 234, 101, 122, 174,   8,
    186, 120,  37,  46,  28, 166, 180, 198, 232, 221, 116,  31,  75, 189, 139, 138,
    112,  62, 181, 102,  72,   3, 246,  14,  97,  53,  87, 185, 134, 193,  29, 158,
    225, 248, 152,  17, 105, 217, 142, 148, 155,  30, 135, 233, 206,  85,  40, 223,
    140, 161, 137,  13, 191, 230,  66, 104,  65, 153,  45,  15, 176,  84, 187,  22>>

InvSBox ==
  << 82,   9, 106, 213,  48,  54, 165,  56, 191,  64, 163, 158, 129, 243, 215, 251,
    124, 227,  57, 130, 155,  47, 255, 135,  52, 142,  67,  68, 196, 222, 233, 203,
     84, 123, 148,  50, 166, 194,  35,  61, 238,  76, 149,  11,  66, 250, 195,  78,
      8,  46, 161, 102,  40, 217,  36, 178, 118,  91, 162,  73, 109, 139, 209,  37,
    114, 248, 246, 100, 134, 104, 152,  22, 212, 164,  92, 204,  93, 101, 182, 146,
    108, 112,  72,  80, 253, 237, 185, 218,  94,  21,  70,  87, 167, 141, 157, 132,
    144, 216, 171,   0, 140, 188, 211,  10, 247, 228,  88,   5, 184, 179,  69,   6,
    208,  44,  30, 143, 202,  63,  15,   2, 193, 175, 189,   3,   1,  19, 138, 107,
     58, 145,  17,  65,  79, 103, 220, 234, 151, 242, 207, 206, 240, 180, 230, 115,
    150, 172, 116,  34, 231, 173,  53, 133, 226, 249,  55, 232,  28, 117, 223, 110,
     71, 241,  26, 113,  29,  41, 197, 137, 111, 183,  98,  14, 170,  24, 190,  27,
    252,  86,  62,  75, 198, 210, 121,  32, 154, 219, 192, 254, 120, 205,  90, 244,
     31, 221, 168,  51, 136,   7, 199,  49, 177,  18,  16,  89,  39, 128, 236,  95,
     96,  81, 127, 169,  25, 181,  74,  13,  45, 229, 122, 159, 147, 201, 156, 239,
    160, 224,  59,  77, 174,  42, 245, 176, 200, 235, 187,  60, 131,  83, 153,  97,
     23,  43,   4, 126, 186, 119, 214,  38, 225, 105,  20,  99,  85,  33,  12, 125>>

\* multiplication by x in GF(2^8) modulo x^8 + x^4 + x^3 + x + 1
xtime(a) == IF a < 128 THEN 2 * a ELSE Xor(2 * a - 256, 27)

\* the product c * a in GF(2^8) of a factor c >= 1 and a byte a
RECURSIVE GMul(_, _)
GMul(c, a) ==
  IF c = 1 THEN a
  ELSE IF c % 2 = 1 THEN Xor(GMul(c - 1, a), a)
  ELSE xtime(GMul(c \div 2, a))

\* the multiples the (inverse) MixColumns step needs: MulTable[c][a + 1] = c * a
MulTable == AsSeq([c \in 1..14 |-> AsSeq([i \in 1..256 |-> GMul(c, i - 1)])])

\* the round constants of the key schedule
Rcon == <<1, 2, 4, 8, 16, 32, 64, 128, 27, 54>>

\* the word the key schedule combines with word i - nk to give word i, of
\* the word t before it: SubWord(RotWord(t)) xor Rcon, SubWord(t), or t
ScheduleWord(t, i, nk) ==
  IF i % nk = 0
  THEN XorBytes(<<SBox[t[2] + 1], SBox[t[3] + 1], SBox[t[4] + 1], SBox[t[1] + 1]>>,
                <<Rcon[i \div nk], 0, 0, 0>>)
  ELSE IF nk > 6 /\ i % nk = 4
  THEN <<SBox[t[1] + 1], SBox[t[2] + 1], SBox[t[3] + 1], SBox[t[4] + 1]>>
  ELSE t

\* one step of the key schedule on the bytes w of the words so far
ExpandStep(w, nk) ==
  IF Len(w) >= 16 * (nk + 7) THEN w
  ELSE w \o XorBytes(SubSeq(w, Len(w) - 4 * nk + 1, Len(w) - 4 * nk + 4),
                     ScheduleWord(SubSeq(w, Len(w) - 3, Len(w)), Len(w) \div 4, nk))

RECURSIVE ExpandRun(_, _)
ExpandRun(w, nk) ==
  IF Len(w) >= 16 * (nk + 7) THEN w
  ELSE ExpandRun(ExpandStep(ExpandStep(ExpandStep(ExpandStep(w, nk), nk), nk), nk), nk)

\* the round keys of a key of 16, 24 or 32 bytes: 16 * (Nr + 1) bytes, Nr = Nk + 6
KeyExpansion(key) == ExpandRun(key, Len(key) \div 4)

RoundKey(rk, r) == SubSeq(rk, 16 * r + 1, 16 * r + 16)
NumRounds(rk) == Len(rk) \div 16 - 1

SubBytes(s) == AsSeq([i \in 1..16 |-> SBox[s[i] + 1]])
InvSubBytes(s) == AsSeq([i \in 1..16 |-> InvSBox[s[i] + 1]])
\* the state is held column by column: byte r + 4c is row r of column c
ShiftRows(s) ==
  AsSeq([i \in 1..16 |-> s[((i - 1) % 4) + 4 * ((((i - 1) \div 4) + ((i - 1) % 4)) % 4) + 1]])
InvShiftRows(s) ==
  AsSeq([i \in 1..16 |-> s[((i - 1) % 4) + 4 * ((((i - 1) \div 4) + 4 - ((i - 1) % 4)) % 4) + 1]])
\* byte r of column c of the state s
Cell(s, c, r) == s[4 * c + (r % 4) + 1]
MixColumns(s) ==
  AsSeq([i \in 1..16 |->
    Xor(Xor(MulTable[2][Cell(s, (i - 1) \div 4, i - 1) + 1],
            MulTable[3][Cell(s, (i - 1) \div 4, i) + 1]),
        Xor(Cell(s, (i - 1) \div 4, i + 1), Cell(s, (i - 1) \div 4, i + 2)))])
InvMixColumns(s) ==
  AsSeq([i \in 1..16 |->
    Xor(Xor(MulTable[14][Cell(s, (i - 1) \div 4, i - 1) + 1],
            MulTable[11][Cell(s, (i - 1) \div 4, i) + 1]),
        Xor(MulTable[13][Cell(s, (i - 1) \div 4, i + 1) + 1],
            MulTable[9][Cell(s, (i - 1) \div 4, i + 2) + 1]))])

\* rounds r..Nr of the cipher on the state s (16 bytes)
RECURSIVE CipherRounds(_, _, _)
CipherRounds(s, rk, r) ==
  IF Len(s) # 16 THEN s
  ELSE IF r = NumRounds(rk) THEN XorBytes(ShiftRows(SubBytes(s)), RoundKey(rk, r))
  ELSE CipherRounds(XorBytes(MixColumns(ShiftRows(SubBytes(s))), RoundKey(rk, r)), rk, r + 1)

\* the AES cipher on one 16-byte block under the round keys rk
Cipher(rk, blk) == CipherRounds(XorBytes(blk, RoundKey(rk, 0)), rk, 1)

\* rounds r..0 of the inverse cipher on the state s (16 bytes)
RECURSIVE InvCipherRounds(_, _, _)
InvCipherRounds(s, rk, r) ==
  IF Len(s) # 16 THEN s
  ELSE IF r = 0 THEN XorBytes(InvSubBytes(InvShiftRows(s)), RoundKey(rk, 0))
  ELSE InvCipherRounds(
         InvMixColumns(XorBytes(InvSubBytes(InvShiftRows(s)), RoundKey(rk, r))), rk, r - 1)

\* the inverse cipher on one 16-byte block
InvCipher(rk, blk) ==
  InvCipherRounds(XorBytes(blk, RoundKey(rk, NumRounds(rk))), rk, NumRounds(rk) - 1)

\* AES.new(key, AES.MODE_ECB).encrypt / .decrypt of one block
AESBlock(key, blk) == Cipher(KeyExpansion(key), blk)
AESBlockInv(key, blk) == InvCipher(KeyExpansion(key), blk)

\* ECB: every 16-byte block is ciphered on its own
RECURSIVE EcbBlocks(_, _, _)
EcbBlocks(rk, data, enc) ==
  IF data = <<>> THEN <<>>
  ELSE (IF enc THEN Cipher(rk, Slice(data, 0, BlockSize))
               ELSE InvCipher(rk, Slice(data, 0, BlockSize)))
       \o EcbBlocks(rk, SliceFrom(data, BlockSize), enc)

ECB(key, data, enc) == EcbBlocks(KeyExpansion(key), data, enc)

\* str(base64.encodebytes(aes.encrypt(d))).replace('\n', ''), d the outcome of to_16
aes_encrypt(key, d) ==
  IF IsRaise(d) THEN d
  ELSE Value(RemoveChar(encodebytes(ECB(key, d.val, TRUE)), NewLine))

\* AESCrypto.encrypt: str(base64.encodebytes(aes.encrypt(to_16(text)))).replace('\n', '')
AESCrypto_encrypt(key, text) ==
  IF ~AESKeyOk(key) THEN Raise("ValueError", "primitive")
  ELSE aes_encrypt(key, to_16(text))

\* variant: the decrypted bytes are decoded without the rstrip
aes_decrypt_NoStrip(key, d) ==
  IF IsRaise(d) THEN d
  ELSE IF Len(d.val) % BlockSize # 0 THEN Raise("ValueError", "primitive")
  ELSE utf8_decode(ECB(key, d.val, FALSE))

\* aes.decrypt(d).rstrip(b'\0').decode("utf8"), d the outcome of decodebytes:
\* data that is no whole number of blocks is a ValueError
aes_decrypt(key, d) ==
  IF IsRaise(d) THEN d
  ELSE IF Len(d.val) % BlockSize # 0 THEN Raise("ValueError", "primitive")
  ELSE utf8_decode(rstrip0(ECB(key, d.val, FALSE)))

\* AESCrypto.decrypt: aes.decrypt(base64.decodebytes(..)).rstrip(b'\0').decode("utf8")
AESCrypto_decrypt(key, text) ==
  IF ~AESKeyOk(key) THEN Raise("ValueError", "primitive")
  ELSE aes_decrypt(key, decodebytes(text))

\* ------------------------------------------------------------------------
\* AESCryptoGCM
\* ------------------------------------------------------------------------
GCMKeyLen == 32

\* Crypto.Util.Padding.pad(data, block_size) with its default style, pkcs7:
\* n = block_size - len(data) % block_size bytes, each of value n
pad(data, block_size) ==
  LET n == block_size - (Len(data) % block_size) IN data \o Repeat(n, n)

\* variant: the length test is > instead of >=
cut_or_pad_Gt(k) ==
  IF IsRaise(k) THEN k
  ELSE Value(IF Len(k.val) > GCMKeyLen THEN Slice(k.val, 0, GCMKeyLen)
             ELSE pad(k.val, GCMKeyLen))

\* key[:32] of at least 32 bytes, else pad(key, 32); k is the outcome of the
\* conversion to bytes
cut_or_pad(k) ==
  IF IsRaise(k) THEN k
  ELSE Value(IF Len(k.val) >= GCMKeyLen THEN Slice(k.val, 0, GCMKeyLen)
             ELSE pad(k.val, GCMKeyLen))

\* AESCryptoGCM.process_key; a secret is [isbytes |-> BOOLEAN, data |-> Seq]:
\* bytes stay, text is encoded (UnicodeEncodeError when it cannot be)
process_key(key) ==
  cut_or_pad(IF key.isbytes THEN Value(key.data) ELSE utf8_encode(key.data))

\* AES in Galois/Counter Mode (NIST SP 800-38D) as AES.new(key, AES.MODE_GCM)
\* applies it: nonces of any length from one byte, a tag of 16 bytes.
\* data followed by zero bytes up to a multiple of 16
Pad16(data) == data \o Repeat(0, (16 - (Len(data) % 16)) % 16)

\* the 64-bit big-endian encoding of n
Int64BE(n) ==
  <<0, 0, 0, 0, (n \div 16777216) % 256, (n \div 65536) % 256, (n \div 256) % 256, n % 256>>

\* multiplication by x in GF(2^128) modulo x^128 + x^7 + x^2 + x + 1: the
\* block, first bit leftmost, is shifted right by one bit, and 11100001 is
\* added to its first byte when a bit fell off
MulX(v) ==
  AsSeq([i \in 1..16 |->
    IF i = 1 THEN (IF v[16] % 2 = 1 THEN Xor(v[1] \div 2, 225) ELSE v[1] \div 2)
    ELSE (v[i] \div 2) + (IF v[i - 1] % 2 = 1 THEN 128 ELSE 0)])

\* one step of the multiplication x * y, for bit i (0 the leftmost) of x: st
\* is [i, z, v]
GFStep(x, st) ==
  IF st.i > 127 THEN st
  ELSE [i |-> st.i + 1,
        z |-> IF (x[(st.i \div 8) + 1] \div (2 ^ (7 - (st.i % 8)))) % 2 = 1
              THEN XorBytes(st.z, st.v) ELSE st.z,
        v |-> MulX(st.v)]

RECURSIVE GFRun(_, _)
GFRun(x, st) ==
  IF st.i > 127 THEN st ELSE GFRun(x, GFStep(x, GFStep(x, GFStep(x, GFStep(x, st)))))

GFMult(x, y) == GFRun(x, [i |-> 0, z |-> Repeat(0, 16), v |-> y]).z

\* GHASH under the hash key h of data of whole blocks, from the value y
RECURSIVE GHashRun(_, _, _)
GHashRun(h, data, y) ==
  IF Len(y) # 16 \/ data = <<>> THEN y
  ELSE GHashRun(h, SubSeq(data, 17, Len(data)), GFMult(XorBytes(y, SubSeq(data, 1, 16)), h))

GHash(h, data) == GHashRun(h, data, Repeat(0, 16))

\* the counter block with its last 32 bits incremented
Inc32(b) ==
  IF b[16] < 255 THEN [b EXCEPT ![16] = @ + 1]
  ELSE IF b[15] < 255 THEN [b EXCEPT ![16] = 0, ![15] = @ + 1]
  ELSE IF b[14] < 255 THEN [b EXCEPT ![16] = 0, ![15] = 0, ![14] = @ + 1]
  ELSE [b EXCEPT ![16] = 0, ![15] = 0, ![14] = 0, ![13] = (@ + 1) % 256]

\* the initial counter block of a nonce
GCMJ0(h, nonce) ==
  IF Len(nonce) = 12 THEN nonce \o <<0, 0, 0, 1>>
  ELSE GHash(h, Pad16(nonce) \o Repeat(0, 8) \o Int64BE(8 * Len(nonce)))

\* counter mode from the counter block ctr
RECURSIVE GCTR(_, _, _)
GCTR(rk, ctr, data) ==
  IF Len(ctr) # 16 \/ data = <<>> THEN <<>>
  ELSE XorBytes(SubSeq(data, 1, IF Len(data) < 16 THEN Len(data) ELSE 16), Cipher(rk, ctr))
       \o GCTR(rk, Inc32(ctr), SubSeq(data, 17, Len(data)))

\* the cipher object of AES.new(key, AES.MODE_GCM, nonce=nonce): the round
\* keys, the hash key h = E(0^128) and the initial counter block j0
GCMCipherH(rk, h, nonce) == [rk |-> rk, h |-> h, j0 |-> GCMJ0(h, nonce)]
GCMCipherRk(rk, nonce) == GCMCipherH(rk, Cipher(rk, Repeat(0, 16)), nonce)
GCMNew(key, nonce) == GCMCipherRk(KeyExpansion(key), nonce)

\* encryption and decryption: counter mode from the block after j0
GCMCrypt(c, data) == GCTR(c.rk, Inc32(c.j0), data)

\* cipher.digest() after cipher.update(header): the tag over header and
\* ciphertext, of TagLen bytes (mac_len, 16 by default)
TagLen == 16
GCMMac(c, header, ct) ==
  SubSeq(XorBytes(GHash(c.h, Pad16(header) \o Pad16(ct)
                             \o Int64BE(8 * Len(header)) \o Int64BE(8 * Len(ct))),
                  Cipher(c.rk, c.j0)),
         1, TagLen)

\* cipher.encrypt, cipher.decrypt and cipher.digest of
\* AES.new(key, AES.MODE_GCM, nonce=nonce)
GCMEncrypt(key, nonce, pt) == GCMCrypt(GCMNew(key, nonce), pt)
GCMDecrypt(key, nonce, ct) == GCMCrypt(GCMNew(key, nonce), ct)
GCMTag(key, nonce, header, ct) == GCMMac(GCMNew(key, nonce), header, ct)

\* cipher.encrypt_and_digest(data) after cipher.update(header), with header
\* and cipher.nonce: the four byte strings AESCryptoGCM.encrypt encodes
SealedAs(c, header, nonce, ct) ==
  [header |-> header, nonce |-> nonce, tag |-> GCMMac(c, header, ct), ciphertext |-> ct]
encrypt_and_digest(c, data, header, nonce) == SealedAs(c, header, nonce, GCMCrypt(c, data))

\* the four byte strings of the plaintext bytes data; header and nonce are
\* the random bytes of this call
GCMParts(key, data, header, nonce) ==
  encrypt_and_digest(GCMNew(key, nonce), data, header, nonce)

\* ''.join(b64encode(x) for x in (header, nonce, tag, ciphertext))
JoinParts(p) ==
  Flatten(<<b64encode(p.header), b64encode(p.nonce),
            b64encode(p.tag), b64encode(p.ciphertext)>>)

\* AESCryptoGCM.encrypt after bytes(text, encoding='utf-8'), whose outcome is d
gcm_seal(key, d, header, nonce) ==
  IF IsRaise(d) THEN d ELSE Value(JoinParts(GCMParts(key, d.val, header, nonce)))

\* AESCryptoGCM.encrypt
AESCryptoGCM_encrypt(key, text, header, nonce) ==
  gcm_seal(key, utf8_encode(text), header, nonce)

\* variant: the fields are sliced at the width of unpadded base64 (22 characters)
GCMSplit_Unpadded(text) ==
  LET metadata == Slice(text, 0, 66)
  IN [header |-> b64decode(Slice(metadata, 0, 22)),
      nonce |-> b64decode(Slice(metadata, 22, 44)),
      tag |-> b64decode(SliceFrom(metadata, 44)),
      ciphertext |-> b64decode(SliceFrom(text, 66))]

\* AESCryptoGCM.decrypt, its slicing of the text
MetaLen == 72
FieldLen == 24
GCMSplit(text) ==
  LET metadata == Slice(text, 0, MetaLen)
  IN [header |-> b64decode(Slice(metadata, 0, FieldLen)),
      nonce |-> b64decode(Slice(metadata, FieldLen, 2 * FieldLen)),
      tag |-> b64decode(SliceFrom(metadata, 2 * FieldLen)),
      ciphertext |-> b64decode(SliceFrom(text, MetaLen))]

\* cipher.decrypt_and_verify(ciphertext, tag).decode('utf-8') after
\* cipher.update(header): a wrong tag is a ValueError
verify_and_decode(c, header, ct, tag) ==
  IF GCMMac(c, header, ct) # tag THEN Raise("ValueError", "auth")
  ELSE utf8_decode(GCMCrypt(c, ct))

\* AESCryptoGCM.decrypt after the split s: a field that is no base64 raises,
\* AES.new(.., nonce=nonce) rejects an empty nonce with ValueError
decrypt_and_verify(key, s) ==
  IF IsRaise(s.header) THEN s.header
  ELSE IF IsRaise(s.nonce) THEN s.nonce
  ELSE IF IsRaise(s.tag) THEN s.tag
  ELSE IF IsRaise(s.ciphertext) THEN s.ciphertext
  ELSE IF s.nonce.val = <<>> THEN Raise("ValueError", "primitive")
  ELSE verify_and_decode(GCMNew(key, s.nonce.val), s.header.val, s.ciphertext.val, s.tag.val)

\* AESCryptoGCM.decrypt
AESCryptoGCM_decrypt(key, text) == decrypt_and_verify(key, GCMSplit(text))

\* ------------------------------------------------------------------------
\* GMSM2Crypto
\* ------------------------------------------------------------------------
\* The SM2 primitive is the library gmssl, outside the repository. Its encrypt
\* is a stand-in that only serves to tell the ciphertexts of a keypair from
\* other data: C1 (64 bytes, from the call's random k) || C3 (32-byte digest)
\* || C2 (the masked plaintext). A keypair is [pub |-> n, priv |-> n].
C1Len == 64
C3Len == 32

\* a position-weighted checksum of a byte string
RECURSIVE WSumRange(_, _, _)
WSumRange(bs, lo, hi) ==
  IF lo > hi THEN 0
  ELSE IF lo = hi THEN (lo + 2) * (bs[lo] + 1)
  ELSE LET mid == (lo + hi) \div 2
       IN (WSumRange(bs, lo, mid) + WSumRange(bs, mid + 1, hi)) % 65536

WSum(bs) == WSumRange(bs, 1, Len(bs))

SM2C1(kp, k) == AsSeq([i \in 1..C1Len |-> (k * (i + 2) + kp.pub + i) % 256])
SM2Shared(kp, c1) == (WSum(c1) + kp.priv) % 256
SM2Digest(s, m) ==
  LET w == WSum(m) IN AsSeq([j \in 1..C3Len |-> (s + 3 * j + (j + 1) * w) % 256])

SM2PrimEncrypt(kp, pt, k) ==
  LET c1 == SM2C1(kp, k)
      s == SM2Shared(kp, c1)
  IN c1 \o SM2Digest(s, pt) \o AsSeq([i \in 1..Len(pt) |-> (pt[i] + s + i) % 256])

\* What CryptSM2.decrypt does with data that is not a ciphertext of the
\* keypair. The repository does not decide it, so every kind of outcome a call
\* can have is allowed: None, bytes that are not UTF-8, bytes that are, an
\* exception of a class the facade catches, an exception of another class.
SM2Outcomes ==
  {NoneResult, Value(<<255>>), Value(<<104, 105>>)}
  \cup {Raise(e, "sm2") : e \in {"ValueError", "TypeError", "IndexError"}}

\* CryptSM2.decrypt: the plaintext of a ciphertext of the keypair; of any other
\* data the given outcome
SM2PrimDecrypt(kp, data, outcome) ==
  IF Len(data) < C1Len + C3Len THEN outcome
  ELSE LET c1 == Slice(data, 0, C1Len)
           c3 == Slice(data, C1Len, C1Len + C3Len)
           c2 == SliceFrom(data, C1Len + C3Len)
           s == SM2Shared(kp, c1)
           m == AsSeq([i \in 1..Len(c2) |-> (c2[i] + 512 - s - i) % 256])
       IN IF SM2Digest(s, m) = c3 THEN Value(m) ELSE outcome

\* urlsafe_b64encode(self.sm2_crypt.encrypt(d)), d the outcome of bytes(text, ..)
sm2_encrypt(kp, d, k) ==
  IF IsRaise(d) THEN d ELSE Value(urlsafe_b64encode(SM2PrimEncrypt(kp, d.val, k)))

\* GMSM2Crypto.encrypt
GMSM2Crypto_encrypt(kp, text, k) == sm2_encrypt(kp, utf8_encode(text), k)

\* .decode('utf8') called on whatever the primitive returned; on None that is
\* an AttributeError
DecodeOptional(r) ==
  IF r.kind = "None" THEN Raise("AttributeError", "none")
  ELSE IF IsRaise(r) THEN r
  ELSE utf8_decode(r.val)

\* self.sm2_crypt.decrypt(d).decode('utf8'), d the outcome of urlsafe_b64decode
sm2_decrypt(kp, d, outcome) ==
  IF IsRaise(d) THEN d ELSE DecodeOptional(SM2PrimDecrypt(kp, d.val, outcome))

\* GMSM2Crypto.decrypt
GMSM2Crypto_decrypt(kp, text, outcome) ==
  sm2_decrypt(kp, urlsafe_b64decode(text), outcome)

\* ------------------------------------------------------------------------
\* Module state: settings, the codec singletons, the Crypto class and instance
\* ------------------------------------------------------------------------
VARIABLES
  settings,       \* django settings: SECRET_KEY, SECURITY_DATA_CRYPTO_METHOD, SM2 keypair
  codec,          \* aes_ecb_crypto, aes_crypto, gm_sm2_crypto: name -> [key]
  class_methods,  \* Crypto.methods (class attribute), the dict's keys in insertion order
  crypto,         \* the Crypto instance: [state, has_methods, methods]
  call,           \* per caller: the facade call in progress
  pf              \* the pure-function harness: [fn, stage, in, out]

vars == <<settings, codec, class_methods, crypto, call, pf>>

\* the names registered in Crypto.methods, in the order the dict literal lists them
RegisteredMethods == <<"aes_ecb", "aes", "gm_sm2">>

\* SECRET_KEY values: "0123456789abcdef"; 31 x 'k' followed by U+00E9 (32
\* characters, 33 bytes, which to_16 pads to 48 bytes: no valid AES key); and
\* "k" followed by the lone surrogate U+DC00, under which the import fails
Key16 == <<48, 49, 50, 51, 52, 53, 54, 55, 56, 57, 97, 98, 99, 100, 101, 102>>
KeyWide == Repeat(107, 31) \o <<233>>
KeyLone == <<107, 56320>>

SM2KeyPair == [pub |-> 7, priv |-> 11]

\* a codec object [key |-> ..] of the key its constructor derived, or the
\* exception of the derivation
NewCodec(k) == IF IsRaise(k) THEN k ELSE Value([key |-> k.val])

\* get_aes_crypto(key, mode): 'ECB' and 'GCM' bind a; any other mode leaves
\* it unbound and `return a` raises UnboundLocalError
get_aes_crypto(key, mode) ==
  IF mode = "ECB" THEN NewCodec(AESCrypto_init(key))
  ELSE IF mode = "GCM" THEN NewCodec(process_key([isbytes |-> FALSE, data |-> key]))
  ELSE Raise("UnboundLocalError", "unbound")

get_gm_sm2_crypto(st) == Value([key |-> st.SM2_KEYPAIR])

\* the outcomes of the three module-level constructor calls
ModuleCalls(st) ==
  [n \in {"aes_ecb", "aes", "gm_sm2"} |->
     IF n = "aes_ecb" THEN get_aes_crypto(st.SECRET_KEY, "ECB")
     ELSE IF n = "aes" THEN get_aes_crypto(st.SECRET_KEY, "GCM")
     ELSE get_gm_sm2_crypto(st)]

\* the import of the module completes when none of them raised
ImportOk(st) == \A n \in DOMAIN ModuleCalls(st) : IsValue(ModuleCalls(st)[n])

\* aes_ecb_crypto, aes_crypto, gm_sm2_crypto
ModuleCodecs(st) == [n \in DOMAIN ModuleCalls(st) |-> ModuleCalls(st)[n].val]

\* the random bytes one encrypt call draws: header and nonce (GCM), k (SM2)
HeaderPlain == Repeat(255, BlockSize)
\* the header whose ECB decryption under Key16 is the text "AAAAAAAAAAAAAAAA"
HeaderText == AESBlock(AESCrypto_init(Key16).val, Repeat(65, BlockSize))
Randoms ==
  {[header |-> h, nonce |-> Repeat(1, BlockSize), k |-> 5] : h \in {HeaderPlain, HeaderText}}

\* <codec>.encrypt(text) of a registered codec object
CodecEncrypt(cd, name, text, rnd) ==
  IF name = "aes_ecb" THEN AESCrypto_encrypt(cd[name].key, text)
  ELSE IF name = "aes" THEN AESCryptoGCM_encrypt(cd[name].key, text, rnd.header, rnd.nonce)
  ELSE GMSM2Crypto_encrypt(cd[name].key, text, rnd.k)

\* <codec>.decrypt(text) of a registered codec object
CodecDecrypt(cd, name, text, outcome) ==
  IF name = "aes_ecb" THEN AESCrypto_decrypt(cd[name].key, text)
  ELSE IF name = "aes" THEN AESCryptoGCM_decrypt(cd[name].key, text)
  ELSE GMSM2Crypto_decrypt(cd[name].key, text, outcome)

\* ------------------------------------------------------------------------
\* Crypto
\* ------------------------------------------------------------------------
\* variant: an unregistered name falls back to the first registered codec
Crypto_init_Default(cls, name) ==
  LET found == \E i \in 1..Len(cls) : cls[i] = name
      active == IF found THEN name ELSE cls[1]
  IN [inst |-> [state |-> "ready", has_methods |-> TRUE,
                methods |-> <<active>> \o SelectSeq(cls, LAMBDA m : m # active)],
      cls |-> cls]

\* variant: the configured codec is looked up but not popped from the copy
Crypto_init_NoPop(cls, name) ==
  IF ~\E i \in 1..Len(cls) : cls[i] = name
  THEN [inst |-> [state |-> "ImproperlyConfigured", has_methods |-> FALSE,
                  methods |-> <<>>],
        cls |-> cls]
  ELSE [inst |-> [state |-> "ready", has_methods |-> TRUE, methods |-> <<name>> \o cls],
        cls |-> cls]

\* Crypto.__init__: copy the class dict, pop the configured name, raise
\* ImproperlyConfigured when it is absent, else self.methods = [method, *rest]
Crypto_init(cls, name) ==
  LET methods == cls
      found == \E i \in 1..Len(methods) : methods[i] = name
      rest == SelectSeq(methods, LAMBDA m : m # name)
  IN IF ~found
     THEN [inst |-> [state |-> "ImproperlyConfigured", has_methods |-> FALSE,
                     methods |-> <<>>],
           cls |-> cls]
     ELSE [inst |-> [state |-> "ready", has_methods |-> TRUE,
                     methods |-> <<name>> \o rest],
           cls |-> cls]

\* variant: the encryptor is the last codec of the list
encryptor_Last(inst) == inst.methods[Len(inst.methods)]

\* Crypto.encryptor
encryptor(inst) == inst.methods[1]

\* the except clause of Crypto.decrypt
ExceptClause == {"TypeError", "ValueError", "UnicodeDecodeError"}

\* Python's exception hierarchy (CPython 3.11): each class that has subclasses,
\* paired with the classes that name it as their first base.  The table holds
\* the built-in exceptions, the exceptions of the standard library's top-level
\* modules and django's ImproperlyConfigured; a name that two modules share is
\* qualified by its module.
ClassTree == {
  <<"object", {"BaseException"}>>,
  <<"BaseException", {"BaseExceptionGroup", "CancelledError", "Exception",
      "GeneratorExit", "KeyboardInterrupt", "SystemExit"}>>,
  <<"BaseExceptionGroup", {"ExceptionGroup"}>>,
  <<"Exception", {"ArgumentTypeError", "ArithmeticError", "AssertionError",
      "AttributeError", "BadZipFile", "BdbQuit", "BufferError",
      "ClassFoundException", "DocTestFailure", "EOFError", "Empty",
      "EndOfBlock", "ErrorDuringImport", "ExitNow", "ExpatError", "Full",
      "GetoptError", "ImportError", "ImproperlyConfigured", "Incomplete",
      "InvalidStateError", "LZMAError", "LargeZipFile", "LimitOverrunError",
      "LookupError", "MemoryError", "NNTPError", "NameError", "NannyNag",
      "NetrcParseError", "OSError", "OSSAudioError", "OptParseError",
      "PickleError", "ProcessError", "PyCompileError", "QueueEmpty",
      "QueueFull", "ReferenceError", "RegistryError", "Restart",
      "RuntimeError", "SkipTest", "StopAsyncIteration", "StopIteration",
      "StopTokenizing", "SubprocessError", "SyntaxError", "SystemError",
      "TarError", "TokenError", "TypeError", "UnexpectedException",
      "ValueError", "Warning", "aifc.Error", "argparse.ArgumentError",
      "audioop.error", "configparser.Error", "copy.Error", "csv.Error",
      "ctypes.ArgumentError", "curses.error", "ftplib.Error",
      "locale.Error", "mailbox.Error", "nis.error", "poplib.error_proto",
      "re.error", "sqlite3.Error", "sqlite3.Warning", "struct.error",
      "sunau.Error", "termios.error", "uu.Error", "wave.Error",
      "webbrowser.Error", "xdrlib.Error", "zlib.error"}>>,
  <<"ArithmeticError", {"DecimalException", "FloatingPointError",
      "OverflowError", "ZeroDivisionError"}>>,
  <<"AttributeError", {"FrozenInstanceError"}>>,
  <<"EOFError", {"IncompleteReadError"}>>,
  <<"ImportError", {"ModuleNotFoundError", "ZipImportError"}>>,
  <<"LookupError", {"CodecRegistryError", "IndexError", "KeyError"}>>,
  <<"NNTPError", {"NNTPDataError", "NNTPPermanentError",
      "NNTPProtocolError", "NNTPReplyError", "NNTPTemporaryError"}>>,
  <<"NameError", {"UnboundLocalError"}>>,
  <<"OSError", {"BadGzipFile", "BlockingIOError", "ChildProcessError",
      "ConnectionError", "ExecError", "FileExistsError",
      "FileNotFoundError", "InterruptedError", "IsADirectoryError",
      "NotADirectoryError", "PermissionError", "ProcessLookupError",
      "SMTPException", "SSLError", "TimeoutError", "UnsupportedOperation",
      "gaierror", "herror", "itimer_error", "shutil.Error",
      "shutil.ReadError", "shutil.SpecialFileError"}>>,
  <<"OptParseError", {"BadOptionError", "OptionError",
      "OptionValueError"}>>,
  <<"PickleError", {"PicklingError", "UnpicklingError"}>>,
  <<"ProcessError", {"AuthenticationError", "BufferTooShort",
      "multiprocessing.TimeoutError"}>>,
  <<"RuntimeError", {"NotImplementedError", "RecursionError",
      "SendfileNotAvailableError", "asyncio.BrokenBarrierError",
      "threading.BrokenBarrierError"}>>,
  <<"SubprocessError", {"CalledProcessError", "TimeoutExpired"}>>,
  <<"SyntaxError", {"IndentationError"}>>,
  <<"TarError", {"CompressionError", "ExtractError", "FilterError",
      "HeaderError", "StreamError", "tarfile.ReadError"}>>,
  <<"ValueError", {"AddressValueError", "CycleError", "IllegalMonthError",
      "IllegalWeekdayError", "InvalidFileException", "JSONDecodeError",
      "NetmaskValueError", "StatisticsError", "TOMLDecodeError",
      "UnicodeError", "ZipAppError", "binascii.Error"}>>,
  <<"Warning", {"BytesWarning", "DeprecationWarning", "EncodingWarning",
      "FutureWarning", "ImportWarning", "PendingDeprecationWarning",
      "ResourceWarning", "RuntimeWarning", "SyntaxWarning",
      "UnicodeWarning", "UnsafeMailcapInput", "UserWarning"}>>,
  <<"configparser.Error", {"DuplicateOptionError", "DuplicateSectionError",
      "InterpolationError", "NoOptionError", "NoSectionError",
      "ParsingError"}>>,
  <<"ftplib.Error", {"error_perm", "error_reply", "error_temp",
      "ftplib.error_proto"}>>,
  <<"mailbox.Error", {"ExternalClashError", "FormatError",
      "NoSuchMailboxError", "NotEmptyError"}>>,
  <<"sqlite3.Error", {"DatabaseError", "InterfaceError"}>>,
  <<"xdrlib.Error", {"ConversionError"}>>,
  <<"DecimalException", {"Clamped", "DivisionByZero", "FloatOperation",
      "Inexact", "InvalidOperation", "Rounded", "Subnormal"}>>,
  <<"KeyError", {"ZoneInfoNotFoundError"}>>,
  <<"ConnectionError", {"BrokenPipeError", "ConnectionAbortedError",
      "ConnectionRefusedError", "ConnectionResetError"}>>,
  <<"SMTPException", {"SMTPNotSupportedError", "SMTPRecipientsRefused",
      "SMTPResponseException", "SMTPServerDisconnected"}>>,
  <<"SSLError", {"SSLCertVerificationError", "SSLEOFError",
      "SSLSyscallError", "SSLWantReadError", "SSLWantWriteError",
      "SSLZeroReturnError"}>>,
  <<"shutil.Error", {"SameFileError"}>>,
  <<"BadOptionError", {"AmbiguousOptionError"}>>,
  <<"OptionError", {"OptionConflictError"}>>,
  <<"IndentationError", {"TabError"}>>,
  <<"FilterError", {"AbsoluteLinkError", "AbsolutePathError",
      "LinkOutsideDestinationError", "OutsideDestinationError",
      "tarfile.SpecialFileError"}>>,
  <<"HeaderError", {"EOFHeaderError", "EmptyHeaderError",
      "InvalidHeaderError", "SubsequentHeaderError",
      "TruncatedHeaderError"}>>,
  <<"UnicodeError", {"UnicodeDecodeError", "UnicodeEncodeError",
      "UnicodeTranslateError"}>>,
  <<"RuntimeWarning", {"InvalidTZPathWarning"}>>,
  <<"UserWarning", {"GetPassWarning"}>>,
  <<"InterpolationError", {"InterpolationDepthError",
      "InterpolationMissingOptionError", "InterpolationSyntaxError"}>>,
  <<"ParsingError", {"MissingSectionHeaderError"}>>,
  <<"DatabaseError", {"DataError", "IntegrityError", "InternalError",
      "NotSupportedError", "OperationalError", "ProgrammingError"}>>,
  <<"Inexact", {"Overflow", "Underflow"}>>,
  <<"InvalidOperation", {"ConversionSyntax", "DivisionImpossible",
      "DivisionUndefined", "InvalidContext"}>>,
  <<"SMTPResponseException", {"SMTPAuthenticationError", "SMTPConnectError",
      "SMTPDataError", "SMTPHeloError", "SMTPSenderRefused"}>>
}

\* the bases a class names after its first one
MixinBases == {
  <<"CodecRegistryError", <<"SystemError">>>>,
  <<"DivisionByZero", <<"ZeroDivisionError">>>>,
  <<"DivisionUndefined", <<"ZeroDivisionError">>>>,
  <<"ExceptionGroup", <<"Exception">>>>,
  <<"FloatOperation", <<"TypeError">>>>,
  <<"Overflow", <<"Rounded">>>>,
  <<"SSLCertVerificationError", <<"ValueError">>>>,
  <<"Underflow", <<"Rounded", "Subnormal">>>>,
  <<"UnsupportedOperation", <<"ValueError">>>>
}

\* cls.__bases__ of a class of the table
Bases(e) ==
  IF e = "object" THEN <<>>
  ELSE <<(CHOOSE n \in ClassTree : e \in n[2])[1]>>
       \o (IF \E m \in MixinBases : m[1] = e
             THEN (CHOOSE m \in MixinBases : m[1] = e)[2] ELSE <<>>)

\* cls.__bases__[0]
BaseClass(e) == Bases(e)[1]

\* issubclass(e, c)
RECURSIVE IsSubclass(_, _)
IsSubclass(e, c) ==
  \/ e = c
  \/ \E i \in DOMAIN Bases(e) : IsSubclass(Bases(e)[i], c)

\* variant: a bare "except Exception"
IsCaught_Any(e) == TRUE

\* the except clause catches an exception of a listed class or of a subclass
IsCaught(e) == \E c \in ExceptClause : IsSubclass(e, c)

\* variant: a successful decrypt does not end the loop
DecryptIteration_NoStop(inst, idx, out) ==
  IF IsRaise(out) /\ ~IsCaught(out.exc) THEN [pc |-> "done", idx |-> idx, result |-> out]
  ELSE IF idx < Len(inst.methods)
    THEN [pc |-> "decrypt", idx |-> idx + 1, result |-> NoneResult]
  ELSE [pc |-> "done", idx |-> idx, result |-> IF IsValue(out) THEN out ELSE NoneResult]

\* variant: when the last codec fails too, its failure is passed on
DecryptIteration_RaiseLast(inst, idx, out) ==
  IF IsValue(out) THEN [pc |-> "done", idx |-> idx, result |-> out]
  ELSE IF ~IsCaught(out.exc) THEN [pc |-> "done", idx |-> idx, result |-> out]
  ELSE IF idx < Len(inst.methods)
    THEN [pc |-> "decrypt", idx |-> idx + 1, result |-> NoneResult]
  ELSE [pc |-> "done", idx |-> idx, result |-> out]

\* one iteration of Crypto.decrypt's loop at position idx, given the outcome
\* `out` of methods[idx].decrypt(text): return it, continue, or let it propagate;
\* falling off the end of the list returns None
DecryptIteration(inst, idx, out) ==
  IF IsValue(out) THEN [pc |-> "done", idx |-> idx, result |-> out]
  ELSE IF ~IsCaught(out.exc) THEN [pc |-> "done", idx |-> idx, result |-> out]
  ELSE IF idx < Len(inst.methods)
    THEN [pc |-> "decrypt", idx |-> idx + 1, result |-> NoneResult]
  ELSE [pc |-> "done", idx |-> idx, result |-> NoneResult]

\* ------------------------------------------------------------------------
\* Inputs of the facade's callers
\* ------------------------------------------------------------------------
NumCallers == 2
Callers == 1..NumCallers

\* "", "hi", U+00E9 "!", "a" NUL, and "hi" followed by the lone surrogate
\* U+D800 (a str that has no UTF-8 encoding)
PlainTexts == {<<>>, <<104, 105>>, <<233, 33>>, <<97, 0>>, <<104, 105, 55296>>}
\* "a", "!!!!", "=", "hi" U+00E9, "hi" U+D800, and the base64 texts of sixteen
\* 0x80 bytes and of a hundred 0x01 bytes
Garbage == {<<97>>, <<33, 33, 33, 33>>, <<61>>, <<104, 105, 233>>, <<104, 105, 55296>>,
            b64encode(Repeat(128, BlockSize)), b64encode(Repeat(1, 100))}

\* what the callers of one specification draw from: plaintexts, random bytes,
\* the codecs whose earlier ciphertexts are decrypted, and other texts
AllInputs == [plain |-> PlainTexts, rnd |-> Randoms,
              src |-> {"aes_ecb", "aes", "gm_sm2"}, garbage |-> Garbage]
FewInputs == [plain |-> {<<104, 105>>}, rnd |-> {CHOOSE r \in Randoms : r.header = HeaderPlain},
              src |-> {"aes_ecb"}, garbage |-> {<<97>>}]

Idle == [pc |-> "idle", op |-> "-", text |-> <<>>, idx |-> 0, log |-> <<>>,
         result |-> NoneResult, src |-> "-", plain |-> <<>>]

\* ------------------------------------------------------------------------
\* Actions of the facade
\* ------------------------------------------------------------------------
\* module import: the settings are read and the three codec objects built
\* (of the values SECURITY_DATA_CRYPTO_METHOD is drawn from, "sm4" is not
\* registered)
InitFacade ==
  /\ settings \in [SECRET_KEY : {Key16, KeyWide, KeyLone},
                   SECURITY_DATA_CRYPTO_METHOD : {"aes_ecb", "aes", "gm_sm2", "sm4"},
                   SM2_KEYPAIR : {SM2KeyPair}]
  /\ ImportOk(settings)
  /\ codec = ModuleCodecs(settings)
  /\ class_methods = RegisteredMethods
  /\ crypto = [state |-> "unbuilt", has_methods |-> FALSE, methods |-> <<>>]
  /\ call = [c \in Callers |-> Idle]
  /\ pf = [fn |-> "-"]

\* crypto = Crypto()
Construct ==
  /\ crypto.state = "unbuilt"
  /\ LET r == Crypto_init(class_methods, settings.SECURITY_DATA_CRYPTO_METHOD)
     IN /\ crypto' = r.inst
        /\ class_methods' = r.cls
  /\ UNCHANGED <<settings, codec, call, pf>>

\* the call record of an encrypt by codec e of text p that ended in out
AfterEncrypt(e, p, out) ==
  [pc |-> "done", op |-> "encrypt", text |-> p, idx |-> 1,
   log |-> <<[codec |-> e, op |-> "encrypt", out |-> out]>>,
   result |-> out, src |-> "-", plain |-> p]

\* crypto.encrypt(text)
Encrypt(c, ins) ==
  /\ crypto.state = "ready"
  /\ call[c].pc = "idle"
  /\ \E p \in ins.plain, rnd \in ins.rnd :
       call' = [call EXCEPT ![c] =
         AfterEncrypt(encryptor(crypto), p,
                      CodecEncrypt(codec, encryptor(crypto), p, rnd))]
  /\ UNCHANGED <<settings, codec, class_methods, crypto, pf>>

\* crypto.decrypt(text) is entered with a text that a registered codec
\* produced earlier (src and plain remember which codec, and from what) ...
DecryptCiphertext(c, ins) ==
  /\ crypto.state = "ready"
  /\ call[c].pc = "idle"
  /\ \E b \in ins.src, p \in ins.plain, rnd \in ins.rnd :
       LET ct == CodecEncrypt(codec, b, p, rnd)
       IN /\ IsValue(ct)
          /\ call' = [call EXCEPT ![c] =
               [pc |-> "decrypt", op |-> "decrypt", text |-> ct.val, idx |-> 1,
                log |-> <<>>, result |-> NoneResult, src |-> b, plain |-> p]]
  /\ UNCHANGED <<settings, codec, class_methods, crypto, pf>>

\* ... or with a text no codec produced
DecryptGarbage(c, ins) ==
  /\ crypto.state = "ready"
  /\ call[c].pc = "idle"
  /\ \E g \in ins.garbage :
       call' = [call EXCEPT ![c] =
         [pc |-> "decrypt", op |-> "decrypt", text |-> g, idx |-> 1,
          log |-> <<>>, result |-> NoneResult, src |-> "garbage", plain |-> <<>>]]
  /\ UNCHANGED <<settings, codec, class_methods, crypto, pf>>

\* the call record cl after methods[cl.idx].decrypt, the codec d, ended in out
AfterDecrypt(cl, d, out) ==
  [cl EXCEPT !.pc = DecryptIteration(crypto, cl.idx, out).pc,
             !.idx = DecryptIteration(crypto, cl.idx, out).idx,
             !.result = DecryptIteration(crypto, cl.idx, out).result,
             !.log = Append(@, [codec |-> d, op |-> "decrypt", out |-> out])]

\* one pass through the body of Crypto.decrypt's for loop: methods[idx].decrypt
\* is called (what the SM2 primitive does with data that is not a ciphertext
\* of the keypair is any of SM2Outcomes)
DecryptStep(c) ==
  /\ call[c].pc = "decrypt"
  /\ LET d == crypto.methods[call[c].idx]
     IN \E outcome \in (IF d = "gm_sm2" THEN SM2Outcomes ELSE {NoneResult}) :
       call' = [call EXCEPT ![c] =
         AfterDecrypt(call[c], d, CodecDecrypt(codec, d, call[c].text, outcome))]
  /\ UNCHANGED <<settings, codec, class_methods, crypto, pf>>

\* the caller takes the result; it may call again
Return(c) ==
  /\ call[c].pc = "done"
  /\ call' = [call EXCEPT ![c] = Idle]
  /\ UNCHANGED <<settings, codec, class_methods, crypto, pf>>

\* One caller, every input
Init == InitFacade

Next ==
  \/ Construct
  \/ Encrypt(1, AllInputs)
  \/ DecryptCiphertext(1, AllInputs)
  \/ DecryptGarbage(1, AllInputs)
  \/ DecryptStep(1)
  \/ Return(1)

Spec == Init /\ [][Next]_vars

\* Concurrent callers of the shared instance, interleaved at the codec calls
NextConc ==
  \/ Construct
  \/ \E c \in Callers : Encrypt(c, FewInputs)
  \/ \E c \in Callers : DecryptCiphertext(c, FewInputs)
  \/ \E c \in Callers : DecryptGarbage(c, FewInputs)
  \/ \E c \in Callers : DecryptStep(c)
  \/ \E c \in Callers : Return(c)

SpecConc == InitFacade /\ [][NextConc]_vars

\* ------------------------------------------------------------------------
\* Harness for the pure functions: pf holds one function's input and outputs
\* ------------------------------------------------------------------------
\* the module imported, no facade call made
FacadeAtRest ==
  /\ settings = [SECRET_KEY |-> Key16, SECURITY_DATA_CRYPTO_METHOD |-> "aes",
                 SM2_KEYPAIR |-> SM2KeyPair]
  /\ codec = ModuleCodecs(settings)
  /\ class_methods = RegisteredMethods
  /\ crypto = [state |-> "unbuilt", has_methods |-> FALSE, methods |-> <<>>]
  /\ call = [c \in Callers |-> Idle]

FacadeUnchanged == UNCHANGED <<settings, codec, class_methods, crypto, call>>

\* --- AESCryptoGCM.process_key ---
MaxSecretLen == 34

\* secrets of every length up to MaxSecretLen: digits, and letters with U+00E9
\* (as text, two bytes) at every fifth place; each as text and as bytes
DigitSecret(n) == AsSeq([i \in 1..n |-> 48 + (i % 10)])
WideSecret(n) == AsSeq([i \in 1..n |-> IF i % 5 = 0 THEN 233 ELSE 97 + (i % 7)])
\* and two text secrets that hold a lone surrogate
KeySecrets ==
  {[isbytes |-> b, data |-> d] :
     b \in BOOLEAN,
     d \in {DigitSecret(n) : n \in 0..MaxSecretLen} \cup {WideSecret(n) : n \in 0..MaxSecretLen}}
  \cup {[isbytes |-> FALSE, data |-> d] : d \in {KeyLone, DigitSecret(32) \o <<55296>>}}

InitKey ==
  /\ FacadeAtRest
  /\ pf \in {[fn |-> "process_key", stage |-> "in", secret |-> k, out |-> NoneResult] :
               k \in KeySecrets}

DeriveKey ==
  /\ pf.stage = "in"
  /\ pf' = [pf EXCEPT !.stage = "out", !.out = process_key(pf.secret)]
  /\ FacadeUnchanged

SpecKey == InitKey /\ [][DeriveKey]_vars

\* --- AESCrypto ---
MaxPlainLen == 3

\* every text over {NUL, "a", U+00E9} up to MaxPlainLen characters
RECURSIVE TextsUpTo(_)
TextsUpTo(n) ==
  IF n = 0 THEN {<<>>}
  ELSE LET shorter == TextsUpTo(n - 1)
       IN shorter \cup {Append(t, ch) : t \in shorter, ch \in {0, 97, 233}}

\* the short texts; texts of 15, 16 and 17 bytes (around one block), of 60
\* bytes (more than one base64 line), and 16 bytes of which the last is NUL;
\* and texts with a lone surrogate, U+D800 and U+DFFF
EcbPlainTexts ==
  TextsUpTo(MaxPlainLen)
  \cup {Repeat(98, 15), Repeat(98, 16), Repeat(98, 17), Repeat(98, 60),
        Repeat(98, 15) \o <<0>>}
  \cup {<<97, 55296>>, <<57343, 0>>}

\* AESCrypto(k) for the secrets "0123456789abcdef", "k", 32 and 40 digits, and
\* KeyWide (no valid key)
InitEcb ==
  /\ FacadeAtRest
  /\ pf \in {[fn |-> "aes_ecb", stage |-> "in", key |-> AESCrypto_init(k).val, plain |-> p,
              ct |-> NoneResult, again |-> NoneResult, back |-> NoneResult] :
               k \in {Key16, <<107>>, DigitSecret(32), DigitSecret(40), KeyWide},
               p \in EcbPlainTexts}

EcbEncrypt ==
  /\ pf.fn = "aes_ecb" /\ pf.stage = "in"
  /\ pf' = [pf EXCEPT !.stage = "encrypted", !.ct = AESCrypto_encrypt(pf.key, pf.plain)]
  /\ FacadeUnchanged

EcbEncryptAgain ==
  /\ pf.fn = "aes_ecb" /\ pf.stage = "encrypted"
  /\ pf' = [pf EXCEPT !.stage = "twice", !.again = AESCrypto_encrypt(pf.key, pf.plain)]
  /\ FacadeUnchanged

EcbDecrypt ==
  /\ pf.fn = "aes_ecb" /\ pf.stage = "twice" /\ IsValue(pf.ct)
  /\ pf' = [pf EXCEPT !.stage = "decrypted", !.back = AESCrypto_decrypt(pf.key, pf.ct.val)]
  /\ FacadeUnchanged

NextEcb == EcbEncrypt \/ EcbEncryptAgain \/ EcbDecrypt

SpecEcb == InitEcb /\ [][NextEcb]_vars

\* --- AESCryptoGCM envelope ---
MaxGcmLen == 7

\* plaintexts of every length up to MaxGcmLen, letters with U+00E9 at every
\* third place, and one with a lone surrogate
GcmPlainTexts ==
  {AsSeq([i \in 1..n |-> IF i % 3 = 0 THEN 233 ELSE 99 + i]) : n \in 0..MaxGcmLen}
  \cup {<<100, 56000>>}

InitGcm ==
  /\ FacadeAtRest
  /\ pf \in {[fn |-> "aes", stage |-> "in", key |-> codec["aes"].key, plain |-> p,
              header |-> h, nonce |-> n, text |-> NoneResult,
              split |-> [header |-> NoneResult, nonce |-> NoneResult,
                         tag |-> NoneResult, ciphertext |-> NoneResult]] :
               p \in GcmPlainTexts,
               h \in {HeaderPlain, HeaderText, Repeat(0, BlockSize)},
               n \in {Repeat(1, BlockSize), AsSeq([i \in 1..BlockSize |-> 250 - 7 * i])}}

GcmEncrypt ==
  /\ pf.fn = "aes" /\ pf.stage = "in"
  /\ pf' = [pf EXCEPT !.stage = "encrypted",
                      !.text = AESCryptoGCM_encrypt(pf.key, pf.plain, pf.header, pf.nonce)]
  /\ FacadeUnchanged

GcmDecryptSplit ==
  /\ pf.fn = "aes" /\ pf.stage = "encrypted" /\ IsValue(pf.text)
  /\ pf' = [pf EXCEPT !.stage = "split", !.split = GCMSplit(pf.text.val)]
  /\ FacadeUnchanged

NextGcm == GcmEncrypt \/ GcmDecryptSplit

SpecGcm == InitGcm /\ [][NextGcm]_vars

\* ------------------------------------------------------------------------
\* Properties
\* ------------------------------------------------------------------------
Registered(name) == \E i \in 1..Len(RegisteredMethods) : RegisteredMethods[i] = name

\* the list the specification asks of a registry: the configured codec, then
\* every other registered codec once, in registration order
ExpectedList ==
  <<settings.SECURITY_DATA_CRYPTO_METHOD>>
  \o SelectSeq(RegisteredMethods, LAMBDA m : m # settings.SECURITY_DATA_CRYPTO_METHOD)

Decrypting(c) == call[c].op = "decrypt"
DecryptDone(c) == call[c].op = "decrypt" /\ call[c].pc = "done"

\* the exception classes that stand for the recoverable "wrong codec" failures
RecoverableClasses ==
  {"binascii.Error", "ValueError", "UnicodeDecodeError", "UnicodeEncodeError", "TypeError"}
\* the causes of failure that the repository's code and the AES primitive
\* decide: malformed base64, a tag that does not verify, bytes or text that are
\* not UTF-8, data or a key the AES primitive refuses
RecoverableCauses == {"decode", "auth", "utf8", "primitive"}

\* C1: Crypto.decrypt calls the codecs in list order (the active codec, then
\* the other registered codecs in registration order), each at most once; it
\* stops at the first codec whose decrypt returns and returns that codec's
\* plaintext, so no codec after a successful one is called.
C1_DecryptInListOrder ==
  \A c \in Callers : Decrypting(c) =>
    LET L == call[c].log IN
    /\ Len(L) <= Len(ExpectedList)
    /\ \A i \in 1..Len(L) : L[i].codec = ExpectedList[i] /\ L[i].op = "decrypt"
    /\ \A i \in 1..Len(L) :
         IsValue(L[i].out) =>
           i = Len(L) /\ call[c].pc = "done" /\ call[c].result = L[i].out
    /\ (call[c].pc = "done" /\ IsValue(call[c].result)) =>
         Len(L) >= 1 /\ L[Len(L)].out = call[c].result
    /\ call[c].pc = "decrypt" => call[c].idx = Len(L) + 1

\* a decrypt that the second codec of three answered: the first failed, the
\* third was never called
C1_Witness ==
  \E c \in Callers :
    /\ DecryptDone(c)
    /\ Len(crypto.methods) = 3
    /\ Len(call[c].log) = 2
    /\ IsRaise(call[c].log[1].out)
    /\ IsValue(call[c].log[2].out)
    /\ call[c].result = call[c].log[2].out

\* C2: for ciphertext that a registered codec other than the active one
\* produced from plaintext p, Crypto.decrypt returns p, never another value.
C2_FallbackReturnsPlaintext ==
  \A c \in Callers :
    (/\ DecryptDone(c)
     /\ Registered(call[c].src)
     /\ call[c].src # settings.SECURITY_DATA_CRYPTO_METHOD)
    => call[c].result = Value(call[c].plain)

\* a failure of one of the recoverable classes
Recoverable(out) == IsRaise(out) /\ out.exc \in RecoverableClasses

\* the named codec's decrypt fails recoverably on the text of caller c's call.
\* An AES codec is a function of the text, so its outcome is computed from the
\* text; the SM2 codec's outcome also depends on the primitive, so it is the
\* outcome the call met.
FailsRecoverably(c, name) ==
  IF name = "gm_sm2"
    THEN \E i \in 1..Len(call[c].log) :
           call[c].log[i].codec = name /\ Recoverable(call[c].log[i].out)
    ELSE Recoverable(CodecDecrypt(codec, name, call[c].text, NoneResult))

C4_OnlyRecoverableCaught ==
  \A c \in Callers : Decrypting(c) =>
    LET L == call[c].log IN
    /\ \A i \in 1..Len(L) :
         (IsRaise(L[i].out) /\ L[i].out.exc \notin RecoverableClasses) =>
           i = Len(L) /\ call[c].pc = "done" /\ call[c].result = L[i].out
    /\ \A i \in 1..(Len(L) - 1) :
         IsRaise(L[i].out) /\ L[i].out.exc \in RecoverableClasses
    /\ (call[c].pc = "done" /\ IsRaise(call[c].result)) =>
         call[c].result.exc \notin RecoverableClasses

\* a decrypt ended by an exception outside the recoverable classes while
\* codecs were left untried
C4_Witness ==
  \E c \in Callers :
    /\ DecryptDone(c)
    /\ IsRaise(call[c].result)
    /\ call[c].result.exc = "AttributeError"
    /\ Len(call[c].log) < Len(crypto.methods)

\* C5: with a configured name that is not registered, construction raises
\* ImproperlyConfigured and sets no codec list on the instance; the class
\* mapping Crypto.methods stays as it was, after a failed and after a
\* successful construction.
C5_UnknownMethodFails ==
  /\ class_methods = RegisteredMethods
  /\ ~Registered(settings.SECURITY_DATA_CRYPTO_METHOD) =>
       /\ crypto.state \in {"unbuilt", "ImproperlyConfigured"}
       /\ ~crypto.has_methods
       /\ crypto.methods = <<>>
  /\ crypto.state = "ImproperlyConfigured" =>
       ~Registered(settings.SECURITY_DATA_CRYPTO_METHOD)
  /\ Registered(settings.SECURITY_DATA_CRYPTO_METHOD) =>
       crypto.state \in {"unbuilt", "ready"}

\* a construction under the unregistered name "sm4" has failed
C5_Witness ==
  /\ crypto.state = "ImproperlyConfigured"
  /\ settings.SECURITY_DATA_CRYPTO_METHOD = "sm4"

\* C6: once constructed, the registry's list is the active codec followed by
\* every other registered codec exactly once in registration order, and the
\* list and the codecs' keys stay what construction and import made them,
\* whatever calls run or are in flight.
C6_RegistryStable ==
  crypto.state = "ready" =>
    /\ crypto.has_methods
    /\ crypto.methods = ExpectedList
    /\ crypto.methods[1] = settings.SECURITY_DATA_CRYPTO_METHOD
    /\ \A n \in {"aes_ecb", "aes", "gm_sm2"} :
         Cardinality({i \in 1..Len(crypto.methods) : crypto.methods[i] = n}) = 1
    /\ codec = ModuleCodecs(settings)

\* two callers inside decrypt at different places of the loop, after an
\* earlier call has ended
C6_Witness ==
  /\ crypto.state = "ready"
  /\ \E c, d \in Callers :
       /\ c # d
       /\ call[c].pc = "decrypt" /\ call[c].idx = 2
       /\ call[d].pc = "done" /\ call[d].op = "decrypt"

\* C7: Crypto.encrypt calls the active codec's encrypt once and no other
\* codec, and its result, value or failure, is the call's result.
C7_EncryptActiveOnly ==
  \A c \in Callers : call[c].op = "encrypt" =>
    /\ call[c].pc = "done"
    /\ Len(call[c].log) = 1
    /\ call[c].log[1].codec = settings.SECURITY_DATA_CRYPTO_METHOD
    /\ call[c].log[1].op = "encrypt"
    /\ call[c].result = call[c].log[1].out
    /\ call[c].result.kind \in {"value", "raise"}

\* an encrypt whose active codec failed: the failure is the result
C7_Witness ==
  \E c \in Callers :
    /\ call[c].op = "encrypt"
    /\ IsRaise(call[c].result)
    /\ Len(crypto.methods) = 3

\* the text has a UTF-8 encoding, and its bytes
Encodable(text) == IsValue(utf8_encode(text))
Utf8Bytes(text) == utf8_encode(text).val

\* the text's UTF-8 bytes end in a zero byte
EndsInZero(text) == text # <<>> /\ Utf8Bytes(text)[Len(Utf8Bytes(text))] = 0

\* the text without its trailing NUL characters
RECURSIVE StripNuls(_)
StripNuls(text) ==
  IF text # <<>> /\ text[Len(text)] = 0 THEN StripNuls(SubSeq(text, 1, Len(text) - 1))
  ELSE text

\* C8: under a valid key, for a text p that has UTF-8 bytes, decrypt(encrypt(p))
\* = p when the bytes do not end in a zero byte, and is p without its trailing
\* NULs (so not p) when they do; encrypting the same text twice gives the same
\* ciphertext. (A text without UTF-8 bytes is not encrypted: UnicodeEncodeError.)
C8_EcbRoundTrip ==
  (pf.fn = "aes_ecb" /\ AESKeyOk(pf.key)) =>
    /\ pf.stage # "in" =>
         IF Encodable(pf.plain) THEN IsValue(pf.ct)
         ELSE IsRaise(pf.ct) /\ pf.ct.exc = "UnicodeEncodeError"
    /\ pf.stage \in {"twice", "decrypted"} => pf.again = pf.ct
    /\ pf.stage = "decrypted" =>
         /\ IsValue(pf.back)
         /\ ~EndsInZero(pf.plain) => pf.back.val = pf.plain
         /\ EndsInZero(pf.plain) =>
              pf.back.val # pf.plain /\ pf.back.val = StripNuls(pf.plain)

\* a zero-padded text of one character came back unchanged
C8_Witness ==
  /\ pf.fn = "aes_ecb" /\ pf.stage = "decrypted"
  /\ AESKeyOk(pf.key)
  /\ pf.plain = <<233>>
  /\ pf.back = Value(<<233>>)

\* C9: the envelope is the 24-character encodings of header, nonce and tag
\* (16 bytes each) followed by the encoding of the ciphertext, and decrypt's
\* slices [0,24), [24,48), [48,72), [72,end) decode to exactly these four.
C9_EnvelopeFraming ==
  (pf.fn = "aes" /\ pf.stage # "in" /\ Encodable(pf.plain)) =>
    LET parts == GCMParts(pf.key, Utf8Bytes(pf.plain), pf.header, pf.nonce)
        t == pf.text.val
    IN /\ IsValue(pf.text)
       /\ Len(parts.header) = 16 /\ Len(parts.nonce) = 16 /\ Len(parts.tag) = 16
       /\ parts.header = pf.header /\ parts.nonce = pf.nonce
       /\ Len(parts.ciphertext) = Len(Utf8Bytes(pf.plain))
       /\ Len(t) = 72 + 4 * ((Len(parts.ciphertext) + 2) \div 3)
       /\ SubSeq(t, 1, 24) = b64encode(parts.header)
       /\ SubSeq(t, 25, 48) = b64encode(parts.nonce)
       /\ SubSeq(t, 49, 72) = b64encode(parts.tag)
       /\ SubSeq(t, 73, Len(t)) = b64encode(parts.ciphertext)
       /\ a2b_base64(SubSeq(t, 1, 72)) = Value(parts.header)
       /\ pf.stage = "split" =>
            /\ pf.split.header = Value(parts.header)
            /\ pf.split.nonce = Value(parts.nonce)
            /\ pf.split.tag = Value(parts.tag)
            /\ pf.split.ciphertext = Value(parts.ciphertext)

\* an envelope of a plaintext whose length is no multiple of three, split
C9_Witness ==
  /\ pf.fn = "aes" /\ pf.stage = "split"
  /\ Len(Utf8Bytes(pf.plain)) = 5
  /\ Len(pf.text.val) = 80
  /\ pf.split.ciphertext.val = GCMEncrypt(pf.key, pf.nonce, Utf8Bytes(pf.plain))

\* the bytes of a secret given as bytes or as text, when it has them
HasBytes(k) == k.isbytes \/ Encodable(k.data)
SecretBytes(k) == IF k.isbytes THEN k.data ELSE Utf8Bytes(k.data)

\* C10 as stated: for every secret process_key returns 32 bytes, the first 32
\* bytes of a secret of at least 32 bytes, else the secret's bytes followed by
\* zero bytes.
C10_ZeroPadded ==
  (pf.fn = "process_key" /\ pf.stage = "out") =>
    /\ IsValue(pf.out)
    /\ Len(pf.out.val) = 32
    /\ HasBytes(pf.secret) =>
         LET k == SecretBytes(pf.secret) IN
         /\ Len(k) >= 32 => pf.out.val = SubSeq(k, 1, 32)
         /\ Len(k) < 32 =>
              /\ SubSeq(pf.out.val, 1, Len(k)) = k
              /\ \A i \in (Len(k) + 1)..32 : pf.out.val[i] = 0

\* C10, amended to what the code does: for a secret that is bytes or text with
\* a UTF-8 encoding process_key returns 32 bytes, the first 32 bytes of a
\* secret of at least 32 bytes, else the secret's n bytes followed by 32 - n
\* bytes each of value 32 - n; for a text without a UTF-8 encoding it raises
\* UnicodeEncodeError.
C10_Pkcs7Padded ==
  (pf.fn = "process_key" /\ pf.stage = "out") =>
    IF ~HasBytes(pf.secret)
    THEN IsRaise(pf.out) /\ pf.out.exc = "UnicodeEncodeError"
    ELSE LET k == SecretBytes(pf.secret) IN
         /\ IsValue(pf.out)
         /\ Len(pf.out.val) = 32
         /\ Len(k) >= 32 => pf.out.val = SubSeq(k, 1, 32)
         /\ Len(k) < 32 =>
              /\ SubSeq(pf.out.val, 1, Len(k)) = k
              /\ \A i \in (Len(k) + 1)..32 : pf.out.val[i] = 32 - Len(k)

\* a text secret of 31 bytes, padded with one byte of value 1
C10_Witness ==
  /\ pf.fn = "process_key" /\ pf.stage = "out"
  /\ ~pf.secret.isbytes
  /\ Encodable(pf.secret.data)
  /\ Len(Utf8Bytes(pf.secret.data)) = 31
  /\ pf.out.val[32] = 1

=============================================================================
